---------------------------- MODULE Spec2Model ----------------------------
(***************************************************************************)
(* JSON Formatter & Size Analyzer (App.tsx): the parse effect, the error   *)
(* locator, the tree builder, the expand/collapse state and the clipboard  *)
(* actions of the single App component, as a state machine.                *)
(*                                                                         *)
(* Text is a sequence of one-character strings.  A JSON value is a record  *)
(* tagged by t: "null", "boolean" (b), "number" (n), "string" (s),         *)
(* "array" (items) or "object" (keys, vals: the own properties in the      *)
(* order JSON.parse created them).  Numbers are integers and string        *)
(* escapes are limited to the ones EscapeChar lists: no input of the model *)
(* uses a fraction, an exponent or another escape.                         *)
(***************************************************************************)
EXTENDS Integers, Sequences, FiniteSets, TLC

\* ------------------------------------------------------------- bounds

\* Malformed inputs are preceded by 0..MaxLeadingNewlines blank lines.
MaxLeadingNewlines == 1

\* ------------------------------------------------------ text helpers

Digits == <<"0", "1", "2", "3", "4", "5", "6", "7", "8", "9">>

IsDigit(c) == \E d \in 1..10 : Digits[d] = c

DigitValue(c) == (CHOOSE d \in 1..10 : Digits[d] = c) - 1

\* Number -> decimal string of a non-negative integer (template literal `${index}`,
\* JSON.stringify of a number, the engine's "position N").
RECURSIVE NatToText(_)
NatToText(n) ==
    IF n < 10 THEN <<Digits[n + 1]>>
    ELSE NatToText(n \div 10) \o <<Digits[(n % 10) + 1]>>

\* parseInt of a run of decimal digits.
RECURSIVE parseInt(_)
parseInt(ds) ==
    IF ds = <<>> THEN 0
    ELSE 10 * parseInt(SubSeq(ds, 1, Len(ds) - 1)) + DigitValue(ds[Len(ds)])

\* String.prototype.substring(0, end), end clamped to the length.
Substring0(text, end) ==
    SubSeq(text, 1, IF end > Len(text) THEN Len(text) ELSE end)

\* String.prototype.split('\n'): the pieces between newline characters
\* (always at least one piece, possibly empty).
RECURSIVE SplitNewline(_)
SplitNewline(text) ==
    IF \A i \in 1..Len(text) : text[i] # "\n" THEN <<text>>
    ELSE LET k == CHOOSE i \in 1..Len(text) :
                      /\ text[i] = "\n"
                      /\ \A j \in 1..(i - 1) : text[j] # "\n"
         IN  <<SubSeq(text, 1, k - 1)>> \o SplitNewline(SubSeq(text, k + 1, Len(text)))

IsWhitespace(c) == c \in {" ", "\n", "\t", "\r"}

\* !input.trim(): the text is empty once its whitespace is stripped.
TrimIsEmpty(text) == \A i \in 1..Len(text) : IsWhitespace(text[i])

\* UTF-8 length of one character: the model's only non-ASCII character is
\* e-acute, two bytes.
Utf8Len(c) == IF c = "é" THEN 2 ELSE 1

\* new Blob([text]).size: the UTF-8 byte length of the text.
RECURSIVE BlobSize(_)
BlobSize(text) ==
    IF text = <<>> THEN 0 ELSE Utf8Len(text[1]) + BlobSize(Tail(text))

\* ------------------------------------------------------- JSON values

JNull == [t |-> "null"]
JBool(b) == [t |-> "boolean", b |-> b]
JNum(n) == [t |-> "number", n |-> n]
JStr(s) == [t |-> "string", s |-> s]
JArr(items) == [t |-> "array", items |-> items]
JObj(keys, vals) == [t |-> "object", keys |-> keys, vals |-> vals]

\* JavaScript truthiness of a parsed value (`!parsedJson`, `parsedJson &&`):
\* null, false, 0 and "" are falsy, everything else (containers included) truthy.
Truthy(v) ==
    CASE v.t = "null" -> FALSE
      [] v.t = "boolean" -> v.b
      [] v.t = "number" -> v.n # 0
      [] v.t = "string" -> v.s # <<>>
      [] OTHER -> TRUE

\* A canonical array index: "0", or digits without a leading zero.
IsArrayIndex(key) ==
    /\ key # <<>>
    /\ \A i \in 1..Len(key) : IsDigit(key[i])
    /\ (Len(key) > 1 => key[1] # "0")

\* CreateDataProperty as JSON.parse uses it: a repeated key keeps its place
\* and takes the new value, a new key is appended.
DefineProperty(obj, key, val) ==
    IF \E i \in 1..Len(obj.keys) : obj.keys[i] = key
    THEN LET i == CHOOSE j \in 1..Len(obj.keys) : obj.keys[j] = key
         IN  JObj(obj.keys, [obj.vals EXCEPT ![i] = val])
    ELSE JObj(Append(obj.keys, key), Append(obj.vals, val))

\* obj[key]
GetProperty(obj, key) ==
    obj.vals[CHOOSE i \in 1..Len(obj.keys) : obj.keys[i] = key]

\* Ascending sort of a finite set of naturals.
RECURSIVE SortedSeq(_)
SortedSeq(S) ==
    IF S = {} THEN <<>>
    ELSE LET m == CHOOSE x \in S : \A y \in S : x <= y
         IN  <<m>> \o SortedSeq(S \ {m})

\* Object.keys(obj): OrdinaryOwnPropertyKeys, array-index keys first in
\* ascending numeric order, then the other keys in creation order.
ObjectKeys(obj) ==
    LET NotIdx(k) == ~IsArrayIndex(k)
        idx == {parseInt(obj.keys[i]) : i \in {j \in 1..Len(obj.keys) : IsArrayIndex(obj.keys[j])}}
        sorted == SortedSeq(idx)
    IN  [i \in 1..Len(sorted) |-> NatToText(sorted[i])] \o SelectSeq(obj.keys, NotIdx)


\* ---------------------------------------------------- JSON.stringify

\* QuoteJSONString's escapes, for the characters the model uses.
EscapeChar(c) ==
    CASE c = "\"" -> <<"\\", "\"">>
      [] c = "\\" -> <<"\\", "\\">>
      [] c = "\n" -> <<"\\", "n">>
      [] c = "\t" -> <<"\\", "t">>
      [] c = "\r" -> <<"\\", "r">>
      [] OTHER -> <<c>>

RECURSIVE EscapeText(_)
EscapeText(s) ==
    IF s = <<>> THEN <<>> ELSE EscapeChar(s[1]) \o EscapeText(Tail(s))

QuoteJSONString(s) == <<"\"">> \o EscapeText(s) \o <<"\"">>

NumberToText(n) == IF n < 0 THEN <<"-">> \o NatToText(-n) ELSE NatToText(n)

Spaces(n) == [i \in 1..n |-> " "]

\* parts[1] sep parts[2] sep ... parts[n]
RECURSIVE Join(_, _)
Join(parts, sep) ==
    IF parts = <<>> THEN <<>>
    ELSE IF Len(parts) = 1 THEN parts[1]
    ELSE parts[1] \o sep \o Join(Tail(parts), sep)

\* SerializeJSONProperty with gap = `gap` spaces and the current indent of
\* `indent` spaces: SerializeJSONArray and SerializeJSONObject step the indent
\* by the gap, separate by "," (no gap) or ",\n" + indent, and put ": " after a
\* key when there is a gap, ":" when there is none.
RECURSIVE Serialize(_, _, _)
Serialize(v, gap, indent) ==
    LET inner == indent + gap
        sep == IF gap = 0 THEN <<",">> ELSE <<",", "\n">> \o Spaces(inner)
        Wrap(open, parts, close) ==
            IF parts = <<>> THEN <<open, close>>
            ELSE IF gap = 0 THEN <<open>> \o Join(parts, sep) \o <<close>>
            ELSE <<open, "\n">> \o Spaces(inner) \o Join(parts, sep)
                     \o <<"\n">> \o Spaces(indent) \o <<close>>
    IN  CASE v.t = "null" -> <<"n", "u", "l", "l">>
          [] v.t = "boolean" ->
                IF v.b THEN <<"t", "r", "u", "e">> ELSE <<"f", "a", "l", "s", "e">>
          [] v.t = "number" -> NumberToText(v.n)
          [] v.t = "string" -> QuoteJSONString(v.s)
          [] v.t = "array" ->
                Wrap("[", [i \in 1..Len(v.items) |-> Serialize(v.items[i], gap, inner)], "]")
          [] v.t = "object" ->
                LET ks == ObjectKeys(v)
                IN  Wrap("{",
                         [i \in 1..Len(ks) |->
                             QuoteJSONString(ks[i]) \o <<":">>
                                 \o (IF gap = 0 THEN <<>> ELSE <<" ">>)
                                 \o Serialize(GetProperty(v, ks[i]), gap, inner)],
                         "}")

\* JSON.stringify(value): the minified text.
JSONStringify(v) == Serialize(v, 0, 0)

\* JSON.stringify(value, null, 2): the text indented by two spaces.
JSONStringifyIndented(v) == Serialize(v, 2, 0)

\* -------------------------------------------------------- JSON.parse

\* A parse result: a value and the index (1-based) of the first character
\* after it, or the offset (0-based, as the engine reports it) of the
\* character the parser could not accept (the length of the text when the
\* text ended too early).
ParseOk(v, next) == [ok |-> TRUE, value |-> v, next |-> next, at |-> 0]
ParseFail(at) == [ok |-> FALSE, value |-> JNull, next |-> 0, at |-> at]

\* The index of the first non-whitespace character at or after i
\* (Len(text) + 1 when there is none).
RECURSIVE SkipWs(_, _)
SkipWs(text, i) ==
    IF i <= Len(text) /\ IsWhitespace(text[i]) THEN SkipWs(text, i + 1) ELSE i

\* The character an escape sequence \c stands for.
Unescape(c) ==
    CASE c = "n" -> "\n"
      [] c = "t" -> "\t"
      [] c = "r" -> "\r"
      [] OTHER -> c

\* The characters of a string literal from index j (after the opening quote)
\* to the closing quote; a raw control character or an unknown escape is an
\* error at its offset.
RECURSIVE ScanString(_, _, _)
ScanString(text, j, acc) ==
    IF j > Len(text) THEN ParseFail(Len(text))
    ELSE IF text[j] = "\"" THEN ParseOk(JStr(acc), j + 1)
    ELSE IF text[j] = "\\" THEN
        IF j + 1 > Len(text) THEN ParseFail(Len(text))
        ELSE IF text[j + 1] \in {"\"", "\\", "/", "n", "t", "r"}
             THEN ScanString(text, j + 2, Append(acc, Unescape(text[j + 1])))
             ELSE ParseFail(j)
    ELSE IF text[j] \in {"\n", "\t", "\r"} THEN ParseFail(j - 1)
    ELSE ScanString(text, j + 1, Append(acc, text[j]))

\* The end (exclusive) of the run of digits starting at j.
RECURSIVE DigitsEnd(_, _)
DigitsEnd(text, j) ==
    IF j <= Len(text) /\ IsDigit(text[j]) THEN DigitsEnd(text, j + 1) ELSE j

\* An integer literal: an optional minus, then 0 or a run of digits that
\* does not start with 0.
ParseNumber(text, i) ==
    LET neg == text[i] = "-"
        d == IF neg THEN i + 1 ELSE i
    IN  IF d > Len(text) THEN ParseFail(Len(text))
        ELSE IF ~IsDigit(text[d]) THEN ParseFail(d - 1)
        ELSE LET e == IF text[d] = "0" THEN d + 1 ELSE DigitsEnd(text, d)
                 n == parseInt(SubSeq(text, d, e - 1))
             IN  ParseOk(JNum(IF neg THEN -n ELSE n), e)

\* One of the literals null, true, false, starting at i.
ParseLiteral(text, i, word, v) ==
    IF \E k \in 1..Len(word) : i + k - 1 > Len(text) \/ text[i + k - 1] # word[k]
    THEN LET k == CHOOSE k \in 1..Len(word) :
                      /\ i + k - 1 > Len(text) \/ text[i + k - 1] # word[k]
                      /\ \A m \in 1..(k - 1) : text[i + m - 1] = word[m]
         IN  IF i + k - 1 > Len(text) THEN ParseFail(Len(text)) ELSE ParseFail(i + k - 2)
    ELSE ParseOk(v, i + Len(word))

RECURSIVE ParseValue(_, _)
RECURSIVE ParseElements(_, _, _)
RECURSIVE ParseMembers(_, _, _)

\* The elements of an array after "[", the first at or after j.
ParseElements(text, j, acc) ==
    LET r == ParseValue(text, j)
        k == SkipWs(text, r.next)
    IN  IF ~r.ok THEN r
        ELSE IF k > Len(text) THEN ParseFail(Len(text))
        ELSE IF text[k] = "," THEN ParseElements(text, k + 1, Append(acc, r.value))
        ELSE IF text[k] = "]" THEN ParseOk(JArr(Append(acc, r.value)), k + 1)
        ELSE ParseFail(k - 1)

\* The members of an object after "{", the first key at or after j0.
ParseMembers(text, j0, obj) ==
    LET j == SkipWs(text, j0)
        key == ScanString(text, j + 1, <<>>)
        c == SkipWs(text, key.next)
        r == ParseValue(text, c + 1)
        k == SkipWs(text, r.next)
        done == DefineProperty(obj, key.value.s, r.value)
    IN  IF j > Len(text) THEN ParseFail(Len(text))
        ELSE IF text[j] # "\"" THEN ParseFail(j - 1)
        ELSE IF ~key.ok THEN key
        ELSE IF c > Len(text) THEN ParseFail(Len(text))
        ELSE IF text[c] # ":" THEN ParseFail(c - 1)
        ELSE IF ~r.ok THEN r
        ELSE IF k > Len(text) THEN ParseFail(Len(text))
        ELSE IF text[k] = "," THEN ParseMembers(text, k + 1, done)
        ELSE IF text[k] = "}" THEN ParseOk(done, k + 1)
        ELSE ParseFail(k - 1)

\* One JSON value, after any leading whitespace.
ParseValue(text, i0) ==
    LET i == SkipWs(text, i0)
        j == SkipWs(text, i + 1)
    IN  IF i > Len(text) THEN ParseFail(Len(text))
        ELSE IF text[i] = "{" THEN
            IF j > Len(text) THEN ParseFail(Len(text))
            ELSE IF text[j] = "}" THEN ParseOk(JObj(<<>>, <<>>), j + 1)
            ELSE ParseMembers(text, j, JObj(<<>>, <<>>))
        ELSE IF text[i] = "[" THEN
            IF j > Len(text) THEN ParseFail(Len(text))
            ELSE IF text[j] = "]" THEN ParseOk(JArr(<<>>), j + 1)
            ELSE ParseElements(text, j, <<>>)
        ELSE IF text[i] = "\"" THEN ScanString(text, i + 1, <<>>)
        ELSE IF text[i] = "-" \/ IsDigit(text[i]) THEN ParseNumber(text, i)
        ELSE IF text[i] = "n" THEN ParseLiteral(text, i, <<"n", "u", "l", "l">>, JNull)
        ELSE IF text[i] = "t" THEN ParseLiteral(text, i, <<"t", "r", "u", "e">>, JBool(TRUE))
        ELSE IF text[i] = "f" THEN
            ParseLiteral(text, i, <<"f", "a", "l", "s", "e">>, JBool(FALSE))
        ELSE ParseFail(i - 1)

\* JSON.parse(text): one value and nothing but whitespace after it.
JSONParse(text) ==
    LET r == ParseValue(text, 1)
        k == SkipWs(text, r.next)
    IN  IF ~r.ok THEN r
        ELSE IF k <= Len(text) THEN ParseFail(k - 1)
        ELSE r

\* ------------------------------------------------------- the engine

\* The message of the SyntaxError JSON.parse throws is the engine's: an
\* "offset" engine names the offset of the failure in it ("... at position
\* N"), a "plain" engine does not.
Engines == {"offset", "plain"}

MsgUnexpectedToken ==
    <<"U", "n", "e", "x", "p", "e", "c", "t", "e", "d", " ", "t", "o", "k", "e", "n",
      " ", "i", "n", " ", "J", "S", "O", "N", " ", "a", "t", " ",
      "p", "o", "s", "i", "t", "i", "o", "n", " ">>

MsgUnexpectedCharacter ==
    <<"J", "S", "O", "N", ".", "p", "a", "r", "s", "e", ":", " ", "u", "n", "e", "x",
      "p", "e", "c", "t", "e", "d", " ", "c", "h", "a", "r", "a", "c", "t", "e", "r">>

\* error.message for a parse of `text` that failed at offset `at`.
ErrorMessage(eng, text, at) ==
    IF eng = "offset" THEN MsgUnexpectedToken \o NatToText(at)
    ELSE MsgUnexpectedCharacter

\* ------------------------------------------------------------- state

VARIABLES
    engine,         \* the JavaScript engine the page runs on (never changes)
    jsonInput,      \* useState(''): the text of the textarea
    parsedJson,     \* useState(null): the parsed value, JNull when there is none
    jsonError,      \* useState(null): the JsonError, NoError when there is none
    expandedNodes,  \* useState(new Set()): the paths of the expanded containers
    clipboard,      \* navigator.clipboard: the text last written to it
    lastOp          \* history: the last handler that ran and what it was given

vars == <<engine, jsonInput, parsedJson, jsonError, expandedNodes, clipboard, lastOp>>

\* jsonError === null
NoError == [none |-> TRUE]

Root == <<"r", "o", "o", "t">>

\* ------------------------------------------------ parseJsonWithError

PositionWord == <<"p", "o", "s", "i", "t", "i", "o", "n", " ">>

\* error.message.match(/position (\d+)/): the first place where "position "
\* is followed by a digit, and the whole run of digits there (<<>> when the
\* message has no such place: match is null).
MatchPosition(message) ==
    LET n == Len(PositionWord)
        Starts(i) ==
            /\ i + n <= Len(message)
            /\ SubSeq(message, i, i + n - 1) = PositionWord
            /\ IsDigit(message[i + n])
    IN  IF \E i \in 1..Len(message) : Starts(i)
        THEN LET i == CHOOSE k \in 1..Len(message) :
                          Starts(k) /\ \A m \in 1..(k - 1) : ~Starts(m)
             IN  SubSeq(message, i + n, DigitsEnd(message, i + n) - 1)
        ELSE <<>>

\* LocateError with the column counted from 0.
LocateErrorColumnFromZero(input, message) ==
    LET match == MatchPosition(message)
        position == IF match # <<>> THEN parseInt(match) ELSE 0
        lines == SplitNewline(Substring0(input, position))
    IN  [message |-> message, line |-> Len(lines),
         column |-> Len(lines[Len(lines)]), position |-> position]

\* The catch branch: the JsonError built from the thrown message.
LocateError(input, message) ==
    LET match == MatchPosition(message)
        position == IF match # <<>> THEN parseInt(match) ELSE 0
        lines == SplitNewline(Substring0(input, position))
        line == Len(lines)
        column == Len(lines[Len(lines)]) + 1
    IN  [message |-> message, line |-> line, column |-> column, position |-> position]

\* parseJsonWithError whose catch branch forgets setParsedJson(null).
parseJsonWithErrorKeepsValue(input, eng, prior) ==
    IF TrimIsEmpty(input)
    THEN [prior EXCEPT !.parsedJson = JNull, !.jsonError = NoError]
    ELSE LET r == JSONParse(input)
         IN  IF r.ok
             THEN [prior EXCEPT !.parsedJson = r.value, !.jsonError = NoError]
             ELSE [prior EXCEPT
                      !.jsonError = LocateError(input, ErrorMessage(eng, input, r.at))]

\* parseJsonWithError(input), run with the state `prior` = [parsedJson,
\* jsonError]: the state it leaves.
parseJsonWithError(input, eng, prior) ==
    IF TrimIsEmpty(input)
    THEN [prior EXCEPT !.parsedJson = JNull, !.jsonError = NoError]
    ELSE LET r == JSONParse(input)
         IN  IF r.ok
             THEN [prior EXCEPT !.parsedJson = r.value, !.jsonError = NoError]
             ELSE [prior EXCEPT !.parsedJson = JNull,
                                !.jsonError = LocateError(input, ErrorMessage(eng, input, r.at))]

\* ----------------------------------------------------- buildJsonTree

\* calculateSize(obj)
calculateSize(obj) == BlobSize(JSONStringify(obj))

RECURSIVE Flatten(_)
Flatten(seqs) == IF seqs = <<>> THEN <<>> ELSE seqs[1] \o Flatten(Tail(seqs))

\* typeof obj of a primitive
TypeOf(obj) == obj.t

\* key === 'root' ? 'root' : `${key} [${n}]` (open, close the brackets).
HeaderKey(key, open, n, close) ==
    IF key = Root THEN Root ELSE key \o <<" ", open>> \o NatToText(n) \o <<close>>

\* buildJsonTree(obj, key, path) with the expandedNodes it closes over.
RECURSIVE buildJsonTree(_, _, _, _)
buildJsonTree(obj, key, path, expanded) ==
    LET currentPath == IF path # <<>> THEN path \o <<".">> \o key ELSE key
    IN  IF obj.t = "null" THEN
            <<[key |-> key, value |-> JNull, type |-> "null",
               size |-> calculateSize(JNull), path |-> currentPath]>>
        ELSE IF obj.t = "array" THEN
            <<[key |-> HeaderKey(key, "[", Len(obj.items), "]"), value |-> obj,
               type |-> "array", size |-> calculateSize(obj), path |-> currentPath,
               expanded |-> currentPath \in expanded]>>
            \o (IF currentPath \in expanded
                THEN Flatten([i \in 1..Len(obj.items) |->
                         buildJsonTree(obj.items[i], <<"[">> \o NatToText(i - 1) \o <<"]">>,
                                       currentPath, expanded)])
                ELSE <<>>)
        ELSE IF obj.t = "object" THEN
            LET keys == ObjectKeys(obj)
            IN  <<[key |-> HeaderKey(key, "{", Len(keys), "}"), value |-> obj,
                   type |-> "object", size |-> calculateSize(obj), path |-> currentPath,
                   expanded |-> currentPath \in expanded]>>
                \o (IF currentPath \in expanded
                    THEN Flatten([i \in 1..Len(keys) |->
                             buildJsonTree(GetProperty(obj, keys[i]), keys[i],
                                           currentPath, expanded)])
                    ELSE <<>>)
        ELSE <<[key |-> key, value |-> obj, type |-> TypeOf(obj),
                size |-> calculateSize(obj), path |-> currentPath]>>

\* The jsonTree memo for a parsed value and an expanded set.
TreeOf(parsed, expanded) ==
    IF ~Truthy(parsed) THEN <<>> ELSE buildJsonTree(parsed, Root, <<>>, expanded)

\* const jsonTree = useMemo(...)
jsonTree == TreeOf(parsedJson, expandedNodes)

\* JsonNodeComponent: the row toggles on a click when canExpand.
CanExpand(node) ==
    /\ node.type \in {"object", "array"}
    /\ "expanded" \in DOMAIN node

\* ------------------------------------------------- header statistics

\* {parsedJson && ( ... )}: the statistics are rendered.
StatsShown == Truthy(parsedJson)

\* The byte count handed to formatBytes (its unit formatting is display only).
SizeShown == BlobSize(JSONStringify(parsedJson))

LinesShown == Len(SplitNewline(JSONStringifyIndented(parsedJson)))

ItemsOf(parsed) ==
    IF parsed.t = "array" THEN Len(parsed.items)
    ELSE IF parsed.t = "object" THEN Len(ObjectKeys(parsed))
    ELSE 1

ItemsShown == ItemsOf(parsedJson)

\* --------------------------------------------------- expansion state

\* toggleNode that only ever adds the path.
toggleNodeAddOnly(prev, path) == prev \cup {path}

\* The updater of toggleNode: a copy of prev with path removed when it was
\* there, added when it was not.
toggleNode(prev, path) ==
    IF path \in prev THEN prev \ {path} ELSE prev \cup {path}

\* The effect that also drops the expansions when there is no value.
AutoExpandRootOrReset(parsed, expanded) ==
    IF ~Truthy(parsed) THEN {}
    ELSE IF Cardinality(expanded) = 0 THEN {Root} ELSE expanded

\* The effect on [parsedJson, expandedNodes.size]: the set it leaves.
AutoExpandRoot(parsed, expanded) ==
    IF Truthy(parsed) /\ Cardinality(expanded) = 0 THEN {Root} ELSE expanded

\* ------------------------------------------------------------ inputs

\* The document of the repository's test 'correctly counts items in a nested
\* json object'.
nestedJson ==
    JObj(<< <<"a">>, <<"b">>, <<"f">> >>,
         << JNum(1),
            JObj(<< <<"c">>, <<"d">> >>,
                 << JNum(2), JObj(<< <<"e">> >>, << JNum(3) >>) >>),
            JArr(<< JNum(1), JNum(2), JNum(3) >>) >>)

\* JSON.stringify(nestedJson), the text the test types.
NestedText == JSONStringify(nestedJson)

\* {"a.b":1,"a":{"b":2}}: a key with a dot in it.
DottedText ==
    <<"{", "\"", "a", ".", "b", "\"", ":", "1", ",", "\"", "a", "\"", ":",
      "{", "\"", "b", "\"", ":", "2", "}", "}">>

\* {"b":1,"1":2}: a key that is an array index, written after another key.
IndexKeyText ==
    <<"{", "\"", "b", "\"", ":", "1", ",", "\"", "1", "\"", ":", "2", "}">>

\* [0,"é"]: an array root, a two-byte character.
ArrayText == <<"[", "0", ",", "\"", "é", "\"", "]">>

\* The documents whose root is a scalar: four falsy ones and a truthy one.
ScalarTexts ==
    { <<"n", "u", "l", "l">>, <<"f", "a", "l", "s", "e">>, <<"0">>, <<"\"", "\"">>,
      <<"7">> }

\* Whitespace only.
BlankText == <<" ", "\n">>

\* {"a": } : the value of "a" is missing.
MissingValueText == <<"{", "\"", "a", "\"", ":", " ", "}">>

\* [1, : the text ends inside the array.
TruncatedText == <<"[", "1", ",">>

\* {"a.b":1,"a":{"b":2}} and, on the next line, a stray "]".
TrailingText == DottedText \o <<"\n", " ", "]">>

Newlines(n) == [i \in 1..n |-> "\n"]

MalformedTexts ==
    {Newlines(k) \o MissingValueText : k \in 0..MaxLeadingNewlines}
        \cup {Newlines(k) \o TruncatedText : k \in 0..MaxLeadingNewlines}
        \cup {TrailingText}

\* The texts the user types or pastes into the textarea.
Inputs ==
    {NestedText, DottedText, IndexKeyText, ArrayText, BlankText}
        \cup ScalarTexts \cup MalformedTexts

\* ----------------------------------------------------------- actions

NoOp == [op |-> "init", path |-> <<>>, pre |-> {}, run |-> 0, base |-> {}, node |-> 0]

\* setJsonInput(text) and the effects it triggers: the parse effect on
\* [jsonInput] runs parseJsonWithError, then the auto-expand effect runs on
\* the new parsedJson.  Setting the text it already has re-renders nothing.
ApplyInput(text, name) ==
    LET st == parseJsonWithError(text, engine,
                                 [parsedJson |-> parsedJson, jsonError |-> jsonError])
    IN  /\ text # jsonInput
        /\ jsonInput' = text
        /\ parsedJson' = st.parsedJson
        /\ jsonError' = st.jsonError
        /\ expandedNodes' = AutoExpandRoot(st.parsedJson, expandedNodes)
        /\ lastOp' = [NoOp EXCEPT !.op = name, !.pre = expandedNodes]
        /\ UNCHANGED <<engine, clipboard>>

\* The textarea's onChange.
SetJsonInput(text) == ApplyInput(text, "input")

\* pasteFromClipboard: the clipboard's text becomes the input.
PasteFromClipboard == ApplyInput(clipboard, "paste")

\* formatJson (the button is disabled while !parsedJson).
FormatJson ==
    /\ Truthy(parsedJson)
    /\ ApplyInput(JSONStringifyIndented(parsedJson), "format")

\* removeWhitespaces (the button is disabled while !parsedJson).
RemoveWhitespaces ==
    /\ Truthy(parsedJson)
    /\ ApplyInput(JSONStringify(parsedJson), "minify")

\* clearJson (the button is disabled while !jsonInput).
ClearJson ==
    /\ jsonInput # <<>>
    /\ ApplyInput(<<>>, "clear")

\* A click on row i of the tree: toggleNode(node.path) when canExpand, then
\* the auto-expand effect on the new set.
ToggleNode(i) ==
    LET node == jsonTree[i]
        again == lastOp.op = "toggle" /\ lastOp.path = node.path /\ lastOp.run = 1
    IN  /\ CanExpand(node)
        /\ expandedNodes' = AutoExpandRoot(parsedJson, toggleNode(expandedNodes, node.path))
        /\ lastOp' = [NoOp EXCEPT !.op = "toggle", !.path = node.path,
                                  !.pre = expandedNodes,
                                  !.run = IF again THEN 2 ELSE 1,
                                  !.base = IF again THEN lastOp.pre ELSE expandedNodes]
        /\ UNCHANGED <<engine, jsonInput, parsedJson, jsonError, clipboard>>

\* The text the copy button of a row hands to copyToClipboard.
NodeCopyText(node) == JSONStringifyIndented(node.value)

\* copyToClipboard(text)
copyToClipboard(text, name, i) ==
    /\ clipboard' = text
    /\ lastOp' = [NoOp EXCEPT !.op = name, !.node = i]
    /\ UNCHANGED <<engine, jsonInput, parsedJson, jsonError, expandedNodes>>

\* The copy button of row i.
CopyNode(i) == copyToClipboard(NodeCopyText(jsonTree[i]), "copyNode", i)

\* The input panel's "Copy JSON" (disabled while !jsonInput).
CopyInput ==
    /\ jsonInput # <<>>
    /\ copyToClipboard(jsonInput, "copyInput", 0)

\* The output panel's "Copy formatted JSON" (rendered while parsedJson).
CopyFormatted ==
    /\ Truthy(parsedJson)
    /\ copyToClipboard(JSONStringifyIndented(parsedJson), "copyFormatted", 0)

Init ==
    /\ engine \in Engines
    /\ jsonInput = <<>>
    /\ parsedJson = JNull
    /\ jsonError = NoError
    /\ expandedNodes = {}
    /\ clipboard = <<>>
    /\ lastOp = NoOp

\* The textarea, the format, minify and clear buttons and the rows of the tree.
Next ==
    \/ \E text \in Inputs : SetJsonInput(text)
    \/ FormatJson
    \/ RemoveWhitespaces
    \/ ClearJson
    \/ \E i \in 1..Len(jsonTree) : ToggleNode(i)

Spec == Init /\ [][Next]_vars

\* The same with the clipboard buttons, on fewer documents.
ClipboardInputs == {IndexKeyText, ArrayText, MissingValueText, <<"7">>}

ClipboardNext ==
    \/ \E text \in ClipboardInputs : SetJsonInput(text)
    \/ PasteFromClipboard
    \/ FormatJson
    \/ RemoveWhitespaces
    \/ ClearJson
    \/ \E i \in 1..Len(jsonTree) : ToggleNode(i)
    \/ \E i \in 1..Len(jsonTree) : CopyNode(i)
    \/ CopyInput
    \/ CopyFormatted

ClipboardSpec == Init /\ [][ClipboardNext]_vars

\* ------------------------------------------------------------ claims

InputOps == {"input", "paste", "format", "minify", "clear"}

\* The input parses: it is not blank and JSON.parse accepts it.
InputParses == ~TrimIsEmpty(jsonInput) /\ JSONParse(jsonInput).ok

IsStrictPrefix(p, q) == Len(p) < Len(q) /\ SubSeq(q, 1, Len(p)) = p

\* C1: two consecutive clicks on the same row (the auto-expand effect run
\* after each, nothing else in between) leave the expanded set, and so the
\* tree, as they were before the first click.
C1_ToggleTwiceRestores ==
    (lastOp.op = "toggle" /\ lastOp.run = 2) =>
        /\ expandedNodes = lastOp.base
        /\ jsonTree = TreeOf(parsedJson, lastOp.base)

C1_Witness ==
    /\ lastOp.op = "toggle"
    /\ lastOp.run = 2
    /\ lastOp.path # Root
    /\ lastOp.pre # expandedNodes
    /\ Len(jsonTree) > 2

\* C2: after every parse the value and the error are never both present: a
\* successful parse leaves the value and no error, a failed parse leaves the
\* error and no value, a blank input leaves neither.
C2_ValueErrorExclusive ==
    /\ ~(parsedJson # JNull /\ jsonError # NoError)
    /\ TrimIsEmpty(jsonInput) => (parsedJson = JNull /\ jsonError = NoError)
    /\ InputParses => (parsedJson = JSONParse(jsonInput).value /\ jsonError = NoError)
    /\ (~TrimIsEmpty(jsonInput) /\ ~InputParses) =>
           (jsonError # NoError /\ parsedJson = JNull)

\* A failed parse that followed a successful one: a value was there to clear
\* (the expanded set is non-empty only after a successful parse).
C2_Witness ==
    /\ lastOp.op \in InputOps
    /\ jsonError # NoError
    /\ expandedNodes # {}
    /\ parsedJson = JNull

\* The number of entries of the root: its elements, its distinct keys, or 1.
RootItemCount(v) ==
    CASE v.t = "array" -> Len(v.items)
      [] v.t = "object" -> Cardinality({v.keys[i] : i \in 1..Len(v.keys)})
      [] OTHER -> 1

\* C3: every input that parses (a scalar root such as null, false, 0 or ""
\* included) shows a non-empty tree that starts with the root, and the
\* statistics, with the item count of the root.
C3_ParsedInputShowsTree ==
    InputParses =>
        /\ Len(jsonTree) > 0
        /\ jsonTree[1].path = Root
        /\ StatsShown
        /\ ItemsShown = RootItemCount(JSONParse(jsonInput).value)

\* C4: no two nodes of one tree have the same path, and every node but the
\* root follows a container whose path is a strict prefix of its own.
C4_PathsUnique ==
    /\ \A i, j \in 1..Len(jsonTree) : i # j => jsonTree[i].path # jsonTree[j].path
    /\ \A i \in 2..Len(jsonTree) :
           \E j \in 1..(i - 1) :
               /\ CanExpand(jsonTree[j])
               /\ IsStrictPrefix(jsonTree[j].path, jsonTree[i].path)

\* C5: the size of a row is the byte length of the text its copy button
\* writes to the clipboard.
C5_SizeIsCopiedLength ==
    lastOp.op = "copyNode" => jsonTree[lastOp.node].size = BlobSize(clipboard)

\* The newline characters among the first o characters of the text.
NewlinesBefore(text, o) == {i \in 1..o : text[i] = "\n"}

\* line and column of offset o, counted directly.
LineOf(text, o) == 1 + Cardinality(NewlinesBefore(text, o))

ColumnOf(text, o) ==
    IF NewlinesBefore(text, o) = {} THEN o + 1
    ELSE o - ((CHOOSE i \in NewlinesBefore(text, o) :
                   \A j \in NewlinesBefore(text, o) : j <= i) - 1)

\* C6: a failed parse whose message names offset o has position o, line 1 +
\* the newlines before o and column o minus the index of the last newline
\* before o (o + 1 without one), both at least 1; a message that names no
\* offset has position 0, line 1, column 1; the message is the engine's.
C6_ErrorLocation ==
    jsonError # NoError =>
        LET o == JSONParse(jsonInput).at
        IN  /\ o \in 0..Len(jsonInput)
            /\ jsonError.message = ErrorMessage(engine, jsonInput, o)
            /\ jsonError.line >= 1
            /\ jsonError.column >= 1
            /\ engine = "offset" =>
                   /\ jsonError.position = o
                   /\ jsonError.line = LineOf(jsonInput, o)
                   /\ jsonError.column = ColumnOf(jsonInput, o)
            /\ engine = "plain" =>
                   /\ jsonError.position = 0
                   /\ jsonError.line = 1
                   /\ jsonError.column = 1

\* An error past the first line and the first column, at a two-digit offset.
C6_Witness ==
    /\ jsonError # NoError
    /\ jsonError.line >= 2
    /\ jsonError.column >= 2
    /\ jsonError.position >= 10

\* The entries of a value at every depth: each element and each key, and
\* the entries below it.
RECURSIVE EntryCount(_)
RECURSIVE SumEntries(_)
SumEntries(vals) ==
    IF vals = <<>> THEN 0 ELSE 1 + EntryCount(vals[1]) + SumEntries(Tail(vals))

EntryCount(v) ==
    CASE v.t = "array" -> SumEntries(v.items)
      [] v.t = "object" -> SumEntries(v.vals)
      [] OTHER -> 0

\* C7: the item count shown for the test's nested document counts the
\* entries at every depth: 9.
C7_ItemsCountEveryDepth ==
    jsonInput = NestedText =>
        /\ StatsShown
        /\ ItemsShown = EntryCount(nestedJson)
        /\ ItemsShown = 9

\* The pre-order listing of the values whose proper ancestors are all
\* expanded: elements by index, keys in the order they were inserted.
RECURSIVE VisibleValues(_, _, _, _)
VisibleValues(v, key, path, expanded) ==
    LET here == IF path # <<>> THEN path \o <<".">> \o key ELSE key
        Child(i) ==
            IF v.t = "array"
            THEN VisibleValues(v.items[i], <<"[">> \o NatToText(i - 1) \o <<"]">>,
                               here, expanded)
            ELSE VisibleValues(v.vals[i], v.keys[i], here, expanded)
        n == IF v.t = "array" THEN Len(v.items)
             ELSE IF v.t = "object" THEN Len(v.keys) ELSE 0
    IN  <<[path |-> here, value |-> v]>>
            \o (IF here \in expanded THEN Flatten([i \in 1..n |-> Child(i)]) ELSE <<>>)

\* The scalars and containers of a value.
RECURSIVE ValueCount(_)
RECURSIVE SumValues(_)
SumValues(vals) ==
    IF vals = <<>> THEN 0 ELSE ValueCount(vals[1]) + SumValues(Tail(vals))

ValueCount(v) ==
    CASE v.t = "array" -> 1 + SumValues(v.items)
      [] v.t = "object" -> 1 + SumValues(v.vals)
      [] OTHER -> 1

\* The paths of the rows that can be toggled.
ContainerPaths(tree) == {tree[i].path : i \in {j \in 1..Len(tree) : CanExpand(tree[j])}}

\* C8: the tree is the pre-order listing, keys in insertion order, of the
\* values whose ancestors are all expanded, each once; with every container
\* expanded it has as many rows as the value has scalars and containers.
C8_PreOrderInsertionOrder ==
    Truthy(parsedJson) =>
        LET ref == VisibleValues(parsedJson, Root, <<>>, expandedNodes)
        IN  /\ Len(jsonTree) = Len(ref)
            /\ \A i \in 1..Len(ref) :
                   /\ jsonTree[i].path = ref[i].path
                   /\ jsonTree[i].value = ref[i].value
            /\ (ContainerPaths(jsonTree) \subseteq expandedNodes) =>
                   Len(jsonTree) = ValueCount(parsedJson)

\* C9: a click on the row of path p flips the membership of p and leaves
\* the membership of every other path as it was.
C9_ToggleFlipsOnePath ==
    lastOp.op = "toggle" =>
        /\ (lastOp.path \in expandedNodes) = (lastOp.path \notin lastOp.pre)
        /\ expandedNodes \ {lastOp.path} = lastOp.pre \ {lastOp.path}

\* C10: an edit of the input leaves the expanded set as it was, except that
\* a successful parse that finds it empty makes it {"root"}.
C10_ParseKeepsExpanded ==
    lastOp.op \in InputOps =>
        \/ expandedNodes = lastOp.pre
        \/ /\ lastOp.pre = {}
           /\ InputParses
           /\ expandedNodes = {Root}

\* Malformed text entered after the user expanded two containers and
\* collapsed the root.
C10_Witness ==
    /\ lastOp.op \in InputOps
    /\ jsonError # NoError
    /\ Cardinality(lastOp.pre) >= 2
    /\ Root \notin lastOp.pre

=============================================================================
